---- MODULE Spec2Model ----
(***************************************************************************)
(* Verification model of the Digital-Twin tool layer: the free-slot        *)
(* calculator (computeFreeSlots), the manual-dispatch MCP server           *)
(* (CallToolRequestSchema handler) and its three tool executors            *)
(* (githubSearch, getCalendarSlots, sendDiscordAlert).                     *)
(*                                                                         *)
(* Times are milliseconds, as in the source (Date.getTime()); the origin   *)
(* of the time axis is a midnight of the reference time zone Asia/Kolkata, *)
(* which has no daylight saving, so the local hour of t is                 *)
(* (t % 24h) \div 1h.                                                      *)
(***************************************************************************)
EXTENDS Integers, Sequences, FiniteSets, TLC

VARIABLES
    \* ---- computeFreeSlots(busy, windowStart, windowEnd, durationMs)
    busy,          \* the busy array (sorted in place by the call)
    windowStart,   \* windowStart.getTime()
    windowEnd,     \* windowEnd.getTime()
    durationMs,    \* durationMs
    slots,         \* the returned array
    slotPc,        \* "input" before the call, "returned" after it
    \* ---- the MCP server process
    env,           \* process.env: which configuration values are set
    cachedClient,  \* _cachedClient: TRUE once the calendar client is cached
    pc,            \* where the tool call in progress is suspended
    callName,      \* request.params.name
    callArgs,      \* request.params.arguments: a function from the keys given
    executor,      \* the executor the handler invoked, "none" if none
    requests,      \* outbound requests issued during this call, in order
    result,        \* the CallToolResult the call settles to
    searchOutcome, \* githubSearch: how the code search ended
    reposOutcome,  \* fallbackRepoSearch: how the repository listing ended
    readmeThrew,   \* fallbackRepoSearch: a README request or its parsing threw
    items,         \* githubSearch: searchData.items.slice(0, 3), as a count
    itemIdx,       \* githubSearch: index of the item whose file is being fetched
    snippets,      \* githubSearch: snippets.length
    matched,       \* fallbackRepoSearch: matched.length
    repoIdx,       \* fallbackRepoSearch: index of the repo whose README is fetched
    httpStatus,    \* sendDiscordAlert: res.status, 0 before a response
    httpBody,      \* sendDiscordAlert: the body the response carries
    suggestions,   \* getCalendarSlots: the suggestions array
    \* ---- the orchestrator's two-pass loop, one user turn at a time
    orchState,     \* "idle", "awaiting-first-response", "executing-tool",
                   \* "awaiting-final-response" or "terminal"
    conversation,  \* the conversation handed to the model, oldest entry first
    generations,   \* generations requested from the model in this turn
    toolRuns,      \* tool executions started in this turn
    turnNo,        \* number of the user turn in progress
    intent,        \* what the first-pass output was written to say
    modelOutput,   \* the model's latest output, as text
    directive,     \* what the detector extracted from the first-pass output
    \* ---- get_calendar_slots calls in flight at once in one process
    callPc,        \* per call: "idle", "cal_list", "config_error", "threw" or "done"
    clientOf,      \* per call: which client getCalendarClient() returned, 0 if none
    built,         \* clients constructed by getCalendarClient() so far
    \* ---- truncateCode(code, maxLines)
    code,          \* code.split("\n"): the lines of the text
    maxLines,      \* maxLines
    truncated,     \* the returned text, as a sequence of items
    truncPc,       \* "idle", "input" before the call, "returned" after it
    \* ---- the chat client and its connection to the server
    messages,      \* App: messages
    isStreaming,   \* App: isStreaming
    isActive,      \* App: isActive
    readyState,    \* ws.current.readyState
    outbox,        \* user messages sent and not yet taken by the server
    inbox,         \* server events sent and not yet handled by onmessage
    serverTurn,    \* the user turn the server is working on, 0 if none
    serverTokens,  \* tokens the server has streamed for that turn
    sends,         \* user messages submitted so far
    arrived,       \* per user turn, the tokens onmessage has handled, in order
    \* ---- ServerHealthCheck
    hcStatus,      \* status
    retryCount,    \* retryCount
    hcMounted,     \* the component is mounted
    effectDirty,   \* the polling effect is due to run (mount, or a dependency changed)
    effectGen,     \* number of the closure made by the latest run of the effect
    closureRetry,  \* the retryCount that closure captured
    inflight,      \* closures whose health-check request has not settled
    retryTimer,    \* closure whose retry timer is pending, 0 if none
    readyTimer,    \* the 500 ms timer before onServerReady() is pending
    issued,        \* health-check requests issued so far
    presses,       \* presses of the Retry button so far
    \* ---- computeFreeSlots, inside the call
    loopCursor,    \* cursor
    loopBlock,     \* index in busy of the block the for loop is at
    loopT          \* t of the while loop in progress

slotVars == <<busy, windowStart, windowEnd, durationMs, slots, slotPc>>
toolVars == <<env, cachedClient, pc, callName, callArgs, executor, requests, result,
              searchOutcome, reposOutcome, readmeThrew, items, itemIdx, snippets,
              matched, repoIdx, httpStatus, httpBody, suggestions>>
orchVars == <<orchState, conversation, generations, toolRuns, turnNo, intent,
              modelOutput, directive>>
callsVars == <<callPc, clientOf, built>>
truncVars == <<code, maxLines, truncated, truncPc>>
chatVars == <<messages, isStreaming, isActive, readyState, outbox, inbox, serverTurn,
              serverTokens, sends, arrived>>
healthVars == <<hcStatus, retryCount, hcMounted, effectDirty, effectGen, closureRetry,
                inflight, retryTimer, readyTimer, issued, presses>>
sweepVars == <<loopCursor, loopBlock, loopT>>
otherVars == <<orchVars, callsVars, truncVars, chatVars, healthVars, sweepVars>>
notOrchVars == <<slotVars, toolVars, callsVars, truncVars, chatVars, healthVars, sweepVars>>
notTruncVars == <<slotVars, toolVars, orchVars, callsVars, chatVars, healthVars, sweepVars>>
notChatVars == <<slotVars, toolVars, orchVars, callsVars, truncVars, healthVars, sweepVars>>
notHealthVars == <<slotVars, toolVars, orchVars, callsVars, truncVars, chatVars, sweepVars>>
notSweepVars == <<orchVars, callsVars, truncVars, chatVars, healthVars>>
vars == <<busy, windowStart, windowEnd, durationMs, slots, slotPc,
          env, cachedClient, pc, callName, callArgs, executor, requests, result,
          searchOutcome, reposOutcome, readmeThrew, items, itemIdx, snippets,
          matched, repoIdx, httpStatus, httpBody, suggestions, otherVars>>

(***************************************************************************)
(* Bounds of the model.  Times are multiples of a quarter of an hour, so   *)
(* that blocks and windows need not be aligned to the 30-minute step.      *)
(***************************************************************************)
MaxTick == 4      \* computeFreeSlots inputs lie in 0 .. MaxTick quarters
MaxBusy == 2      \* length of the busy list given to computeFreeSlots
MaxHits == 4      \* code-search hits in one response (per_page=5 in the source)
MaxRepos == 5     \* repositories matching the query before slice(0, 4)
MaxEvents == 1    \* calendar events in one events.list response

QuarterMs == 15 * 60 * 1000
HourMs == 60 * 60 * 1000
DayMs == 24 * HourMs

Range(seq) == {seq[i] : i \in 1..Len(seq)}
Min(a, b) == IF a < b THEN a ELSE b
Max(a, b) == IF a > b THEN a ELSE b

Times == {k * QuarterMs : k \in 0..MaxTick}
\* Busy intervals built from calendar events: an event ends no earlier than it starts.
Intervals == {iv \in [start : Times, end : Times] : iv.start <= iv.end}
\* Any pair of timestamps, inverted ones included.
AnyIntervals == [start : Times, end : Times]
SeqsUpTo(S, n) == UNION {[1..k -> S] : k \in 0..n}
Durations == {k * QuarterMs : k \in 1..3}
AnyDurations == {k * QuarterMs : k \in -1..3}
WindowStarts == {0, QuarterMs}
AnyWindowStarts == {QuarterMs}

(***************************************************************************)
(* computeFreeSlots                                                        *)
(***************************************************************************)
\* t += 30 * 60 * 1000
StepMs == 30 * 60 * 1000

\* Insert block b into the sorted list s after every block whose start is not
\* later: Array.prototype.sort with (a, b) => a.start - b.start is stable.
RECURSIVE InsertByStart(_, _)
InsertByStart(s, b) ==
    IF s = <<>> THEN <<b>>
    ELSE IF b.start < Head(s).start THEN <<b>> \o s
    ELSE <<Head(s)>> \o InsertByStart(Tail(s), b)

RECURSIVE SortByStart(_)
SortByStart(list) ==
    IF list = <<>> THEN <<>>
    ELSE InsertByStart(SortByStart(SubSeq(list, 1, Len(list) - 1)), list[Len(list)])

\* A slot that always ends one step after its start.
MakeSlotOneStep(t, d) == [start |-> t, end |-> t + StepMs]

\* slots.push({ start: new Date(t), end: new Date(t + durationMs) })
MakeSlot(t, d) == [start |-> t, end |-> t + d]

\* while (t + durationMs <= bound) { slots.push(...); t += 30 * 60 * 1000 }
RECURSIVE EmitSlots(_, _, _)
EmitSlots(t, bound, d) ==
    IF t + d <= bound
    THEN <<MakeSlot(t, d)>> \o EmitSlots(t + StepMs, bound, d)
    ELSE <<>>

\* if (bound - cursor >= durationMs) { let t = cursor; while ... }
GapSlots(cursor, bound, d) ==
    IF bound - cursor >= d THEN EmitSlots(cursor, bound, d) ELSE <<>>

\* The cursor left where it was.
MoveCursorNever(cursor, blockEnd) == cursor

\* The cursor set to the block's end without the comparison.
MoveCursorAlways(cursor, blockEnd) == blockEnd

\* if (blockEnd > cursor) cursor = blockEnd
MoveCursor(cursor, blockEnd) ==
    IF blockEnd > cursor THEN blockEnd ELSE cursor

\* The state of the for-loop after the first k blocks of the sorted list.
RECURSIVE Sweep(_, _, _, _)
Sweep(sorted, ws, d, k) ==
    IF k = 0 THEN [cursor |-> ws, slots |-> <<>>]
    ELSE LET prev == Sweep(sorted, ws, d, k - 1)
             block == sorted[k]
         IN  [cursor |-> MoveCursor(prev.cursor, block.end),
              slots  |-> prev.slots \o GapSlots(prev.cursor, block.start, d)]

\* Gap after the last busy block until window end
FinalGap(cursor, we, d) == GapSlots(cursor, we, d)

computeFreeSlots(b, ws, we, d) ==
    LET sorted == SortByStart(b)
        swept  == Sweep(sorted, ws, d, Len(sorted))
    IN  swept.slots \o FinalGap(swept.cursor, we, d)

(***************************************************************************)
(* The MCP server: tool schemas and values shared by the executors         *)
(***************************************************************************)
ToolNames == {"github_search", "get_calendar_slots", "send_discord_alert"}
\* Names no tool is registered under.
UnknownNames == {"book_meeting", ""}
CallNames == ToolNames \cup UnknownNames

\* TOOLS[i].inputSchema.required
RequiredKeys(name) ==
    CASE name = "github_search" -> {"query"}
      [] name = "get_calendar_slots" -> {"duration"}
      [] name = "send_discord_alert" -> {"visitor_name", "company", "message"}
      [] OTHER -> {}

\* Argument objects a client may send: a function from the keys it gives.
FnsOnSubsets(keys, values) == UNION {[K -> values] : K \in SUBSET keys}
ArgsFor(name) ==
    CASE name = "github_search" -> FnsOnSubsets({"query"}, {"", "React"})
      [] name = "get_calendar_slots" -> FnsOnSubsets({"duration"}, {0, -30, 30, 45})
      [] name = "send_discord_alert" ->
            FnsOnSubsets({"visitor_name", "company", "message"}, {"", "Test"})
      [] OTHER -> FnsOnSubsets({"query"}, {"React"})
NoArgs == [k \in {} |-> ""]

EnvKeys == {"GITHUB_TOKEN", "GITHUB_USERNAME", "GOOGLE_CALENDAR_ID",
            "GOOGLE_KEY_PATH", "GOOGLE_KEY_CONTENT", "DISCORD_WEBHOOK_URL"}

\* A CallToolResult: kind "text" is content without isError, kind "error" is
\* content with isError: true; kind "thrown" is an exception leaving the call.
Res(kind, msg, about, status, body) ==
    [kind |-> kind, msg |-> msg, about |-> about, status |-> status, body |-> body]
NoResult == Res("none", "", "", 0, "")
TextResult(msg) == Res("text", msg, "", 0, "")
ErrorResult(msg) == Res("error", msg, "", 0, "")
Thrown == Res("thrown", "", "", 0, "")

\* An outbound request: the endpoint and, for per-item endpoints, the item.
Req(ep, n) == [ep |-> ep, n |-> n]

\* A switch whose last case also takes every other name.
RouteNoDefault(name) ==
    CASE name = "github_search" -> "github_search"
      [] name = "get_calendar_slots" -> "get_calendar_slots"
      [] OTHER -> "send_discord_alert"

\* switch (name) { case ...: default: }
Route(name) ==
    CASE name = "github_search" -> "github_search"
      [] name = "get_calendar_slots" -> "get_calendar_slots"
      [] name = "send_discord_alert" -> "send_discord_alert"
      [] OTHER -> "default"

\* default: return { content: [`Unknown tool: ${name}`], isError: true }
UnknownToolResult(name) == Res("error", "Unknown tool: ", name, 0, "")

\* const query = args?.query as string; if (!query) ...
QueryGiven(args) == "query" \in DOMAIN args /\ args["query"] # ""
\* const duration = args?.duration as number; if (!duration || duration <= 0) ...
DurationGiven(args) ==
    "duration" \in DOMAIN args /\ args["duration"] # 0 /\ ~(args["duration"] <= 0)

\* The check with the user name forgotten.
GithubTokenOnly == env["GITHUB_TOKEN"]

\* if (!token || !username)
GithubConfigured == env["GITHUB_TOKEN"] /\ env["GITHUB_USERNAME"]
\* if (!calendarId || !process.env.GOOGLE_KEY_PATH)
CalendarConfigured == env["GOOGLE_CALENDAR_ID"] /\ env["GOOGLE_KEY_PATH"]
\* if (!webhookUrl)
DiscordConfigured == env["DISCORD_WEBHOOK_URL"]

\* A catch block that throws the error on.
GithubRethrow == Thrown

\* catch (err) { return { content: [`GitHub search error: ...`], isError: true } }
GithubCatch == ErrorResult("GitHub search error: ")
\* catch (err) { return { content: [`Calendar error: ...`], isError: true } }
CalendarCatch == ErrorResult("Calendar error: ")
\* catch (err) { return { content: [`Discord alert error: ...`], isError: true } }
DiscordCatch == ErrorResult("Discord alert error: ")

\* The handler returned (or threw): nothing of the call is left suspended.
Settle(r) == /\ result' = r
             /\ pc' = "done"

\* The server process has started and no request has arrived yet.
NoCall ==
    /\ cachedClient = FALSE
    /\ pc = "idle"
    /\ callName = ""
    /\ callArgs = NoArgs
    /\ executor = "none"
    /\ requests = <<>>
    /\ result = NoResult
    /\ searchOutcome = "none"
    /\ reposOutcome = "none"
    /\ readmeThrew = FALSE
    /\ items = 0
    /\ itemIdx = 0
    /\ snippets = 0
    /\ matched = 0
    /\ repoIdx = 0
    /\ httpStatus = 0
    /\ httpBody = ""
    /\ suggestions = <<>>

\* process.env is read from .env at start-up and never written.
ToolInit ==
    /\ env \in [EnvKeys -> BOOLEAN]
    /\ NoCall

ghVars == <<searchOutcome, reposOutcome, readmeThrew, items, itemIdx, snippets,
            matched, repoIdx>>

(***************************************************************************)
(* github_search: the dispatch case and githubSearch / fallbackRepoSearch  *)
(***************************************************************************)
\* A search that reports its own failure instead of falling back.
StartFallbackGiveUp ==
    /\ requests' = requests
    /\ pc' = "done"
    /\ result' = ErrorResult("GitHub search error: ")

\* return await fallbackRepoSearch(query, username): its first statement
\* issues the repository-listing request.
StartFallback ==
    /\ requests' = Append(requests, Req("repos", 0))
    /\ pc' = "gh_repos"
    /\ result' = result

CallGithubSearch ==
    \E name \in CallNames : \E args \in ArgsFor(name) :
        /\ pc = "idle"
        /\ Route(name) = "github_search"
        /\ callName' = name
        /\ callArgs' = args
        /\ IF ~QueryGiven(args)
           THEN /\ Settle(ErrorResult("ERROR: 'query' argument is required."))
                /\ UNCHANGED <<executor, requests>>
           ELSE /\ executor' = "githubSearch"
                /\ IF ~GithubConfigured
                   THEN /\ Settle(ErrorResult("ERROR: GITHUB_TOKEN or GITHUB_USERNAME not set in environment."))
                        /\ UNCHANGED requests
                   ELSE \* const searchRes = await fetch(searchUrl, ...)
                        /\ requests' = Append(requests, Req("search", 0))
                        /\ pc' = "gh_search"
                        /\ UNCHANGED result
        /\ UNCHANGED <<otherVars, env, cachedClient, ghVars, httpStatus, httpBody, suggestions, slotVars>>

\* The code-search request settles: it rejects, or answers with a status.
GhSearchResponse ==
    /\ pc = "gh_search"
    /\ \E out \in {"reject", "http_error", "ok"} :
          CASE out = "reject" ->
                  /\ searchOutcome' = "reject"
                  /\ Settle(GithubCatch)
                  /\ UNCHANGED requests
            [] out = "http_error" ->
                  /\ searchOutcome' = "http_error"
                  /\ StartFallback
            [] out = "ok" ->
                  /\ searchOutcome' = "ok"
                  /\ pc' = "gh_search_json"
                  /\ UNCHANGED <<requests, result>>
    /\ UNCHANGED <<otherVars, env, cachedClient, callName, callArgs, executor, reposOutcome,
                   readmeThrew, items, itemIdx, snippets, matched, repoIdx,
                   httpStatus, httpBody, suggestions, slotVars>>

\* Every hit of the search is fetched.
SliceHitsAll(n) == n

\* for (const item of searchData.items.slice(0, 3))
SliceHits(n) == Min(n, 3)

\* await searchRes.json(), then the zero-results test and the first file fetch.
GhSearchJson ==
    /\ pc = "gh_search_json"
    /\ \/ /\ searchOutcome' = "json_reject"
          /\ Settle(GithubCatch)
          /\ UNCHANGED <<requests, items, itemIdx, snippets>>
       \/ \E totalCount \in {0, 1} : \E n \in 0..MaxHits :
             IF totalCount = 0 \/ n = 0
             THEN /\ searchOutcome' = "empty"
                  /\ StartFallback
                  /\ UNCHANGED <<items, itemIdx, snippets>>
             ELSE /\ searchOutcome' = "hits"
                  /\ items' = SliceHits(n)
                  /\ itemIdx' = 1
                  /\ snippets' = 0
                  /\ requests' = Append(requests, Req("file", 1))
                  /\ pc' = "gh_file"
                  /\ UNCHANGED result
    /\ UNCHANGED <<otherVars, env, cachedClient, callName, callArgs, executor, reposOutcome,
                   readmeThrew, matched, repoIdx, httpStatus, httpBody, suggestions, slotVars>>

\* A file request that did not yield a snippet is issued once more.
NextItemRetry(sn) ==
    /\ snippets' = sn
    /\ IF itemIdx < items
       THEN /\ itemIdx' = itemIdx + 1
            /\ requests' = Append(requests, Req("file", itemIdx))
            /\ pc' = "gh_file"
            /\ UNCHANGED result
       ELSE /\ UNCHANGED itemIdx
            /\ IF sn = 0
               THEN StartFallback
               ELSE /\ Settle(TextResult("GitHub search results for "))
                    /\ UNCHANGED requests

\* The end of one iteration of the file loop with sn snippets collected so far:
\* the next file is fetched, or the loop ends (no snippet: fallback).
NextItem(sn) ==
    /\ snippets' = sn
    /\ IF itemIdx < items
       THEN /\ itemIdx' = itemIdx + 1
            /\ requests' = Append(requests, Req("file", itemIdx + 1))
            /\ pc' = "gh_file"
            /\ UNCHANGED result
       ELSE /\ UNCHANGED itemIdx
            /\ IF sn = 0
               THEN StartFallback
               ELSE /\ Settle(TextResult("GitHub search results for "))
                    /\ UNCHANGED requests

GhFileResponse ==
    /\ pc = "gh_file"
    /\ \E out \in {"reject", "http_error", "ok"} :
          CASE out = "reject" ->
                  /\ Settle(GithubCatch)
                  /\ UNCHANGED <<requests, itemIdx, snippets>>
            [] out = "http_error" -> NextItem(snippets)   \* if (!fileRes.ok) continue
            [] out = "ok" ->
                  /\ pc' = "gh_file_json"
                  /\ UNCHANGED <<requests, result, itemIdx, snippets>>
    /\ UNCHANGED <<otherVars, env, cachedClient, callName, callArgs, executor, searchOutcome,
                   reposOutcome, readmeThrew, items, matched, repoIdx, httpStatus, httpBody,
                   suggestions, slotVars>>

GhFileJson ==
    /\ pc = "gh_file_json"
    /\ \E out \in {"reject", "no_content", "content"} :
          CASE out = "reject" ->
                  /\ Settle(GithubCatch)
                  /\ UNCHANGED <<requests, itemIdx, snippets>>
            [] out = "no_content" -> NextItem(snippets)   \* if (!fileData.content) continue
            [] out = "content" -> NextItem(snippets + 1)  \* snippets.push(...)
    /\ UNCHANGED <<otherVars, env, cachedClient, callName, callArgs, executor, searchOutcome,
                   reposOutcome, readmeThrew, items, matched, repoIdx, httpStatus, httpBody,
                   suggestions, slotVars>>

\* if (!reposRes.ok) return { content: [`Could not fetch repos: HTTP ...`], isError: true }
ReposFailedResult(status) == Res("error", "Could not fetch repos: HTTP ", "", status, "")

GhReposResponse ==
    /\ pc = "gh_repos"
    /\ \E out \in {"reject", "http_error", "ok"} :
          CASE out = "reject" ->
                  /\ reposOutcome' = "reject"
                  /\ Settle(GithubCatch)
            [] out = "http_error" ->
                  /\ reposOutcome' = "http_error"
                  /\ \E status \in {403, 500} : Settle(ReposFailedResult(status))
            [] out = "ok" ->
                  /\ reposOutcome' = "ok"
                  /\ pc' = "gh_repos_json"
                  /\ UNCHANGED result
    /\ UNCHANGED <<otherVars, env, cachedClient, callName, callArgs, executor, requests,
                   searchOutcome, readmeThrew, items, itemIdx, snippets, matched,
                   repoIdx, httpStatus, httpBody, suggestions, slotVars>>

\* repos.filter(...).slice(0, 4)
SliceMatched(n) == Min(n, 4)

GhReposJson ==
    /\ pc = "gh_repos_json"
    /\ \/ /\ reposOutcome' = "json_reject"
          /\ Settle(GithubCatch)
          /\ UNCHANGED <<requests, matched, repoIdx>>
       \/ \E n \in 0..MaxRepos :
             /\ matched' = SliceMatched(n)
             /\ UNCHANGED reposOutcome
             /\ IF SliceMatched(n) = 0
                THEN /\ Settle(TextResult("No repositories found matching "))
                     /\ UNCHANGED <<requests, repoIdx>>
                ELSE /\ repoIdx' = 1
                     /\ requests' = Append(requests, Req("readme", 1))
                     /\ pc' = "gh_readme"
                     /\ UNCHANGED result
    /\ UNCHANGED <<otherVars, env, cachedClient, callName, callArgs, executor, searchOutcome,
                   readmeThrew, items, itemIdx, snippets, httpStatus, httpBody, suggestions,
                   slotVars>>

\* results.push(...) ends one iteration of the README loop.
NextRepo ==
    IF repoIdx < matched
    THEN /\ repoIdx' = repoIdx + 1
         /\ requests' = Append(requests, Req("readme", repoIdx + 1))
         /\ pc' = "gh_readme"
         /\ UNCHANGED result
    ELSE /\ Settle(TextResult("Repos matching "))
         /\ UNCHANGED <<requests, repoIdx>>

GhReadmeResponse ==
    /\ pc = "gh_readme"
    /\ \E out \in {"reject", "http_error", "ok"} :
          CASE out = "reject" ->
                  /\ readmeThrew' = TRUE
                  /\ Settle(GithubCatch)
                  /\ UNCHANGED <<requests, repoIdx>>
            [] out = "http_error" ->     \* if (readmeRes.ok) { ... } skipped
                  /\ NextRepo
                  /\ UNCHANGED readmeThrew
            [] out = "ok" ->
                  /\ pc' = "gh_readme_json"
                  /\ UNCHANGED <<requests, result, repoIdx, readmeThrew>>
    /\ UNCHANGED <<otherVars, env, cachedClient, callName, callArgs, executor, searchOutcome,
                   reposOutcome, items, itemIdx, snippets, matched, httpStatus, httpBody,
                   suggestions, slotVars>>

GhReadmeJson ==
    /\ pc = "gh_readme_json"
    /\ \E out \in {"reject", "no_content", "content"} :
          CASE out = "reject" ->
                  /\ readmeThrew' = TRUE
                  /\ Settle(GithubCatch)
                  /\ UNCHANGED <<requests, repoIdx>>
            [] OTHER ->
                  /\ NextRepo
                  /\ UNCHANGED readmeThrew
    /\ UNCHANGED <<otherVars, env, cachedClient, callName, callArgs, executor, searchOutcome,
                   reposOutcome, items, itemIdx, snippets, matched, httpStatus, httpBody,
                   suggestions, slotVars>>

(***************************************************************************)
(* get_calendar_slots: the dispatch case, getCalendarClient and            *)
(* getCalendarSlots                                                        *)
(***************************************************************************)
\* new Date(now.getTime() + 48 * 60 * 60 * 1000)
WindowMs == 48 * 60 * 60 * 1000

\* Instants at which a call may read the clock (new Date()).
CalNows == {35 * QuarterMs, 70 * QuarterMs}

\* What events.list may answer for the window [now, now + 48h]: events that
\* intersect the window (they end after timeMin and start before timeMax), in
\* start order (orderBy: "startTime"); an all-day event has date, not dateTime.
CalEventsAt(now) ==
    {[start |-> now + ab[1] * QuarterMs, end |-> now + ab[2] * QuarterMs, allDay |-> f] :
        ab \in {<<-2, 2>>, <<1, 3>>, <<4, 4>>, <<190, 194>>, <<-2, 194>>}, f \in {FALSE}}
    \cup {[start |-> now, end |-> now + DayMs, allDay |-> TRUE]}
IsSortedByStart(seq) == \A i \in 1..(Len(seq) - 1) : seq[i].start <= seq[i + 1].start
CalResponsesAt(now) ==
    {r \in SeqsUpTo(CalEventsAt(now), MaxEvents) : IsSortedByStart(r)}

\* if (!event.start?.dateTime || !event.end?.dateTime) continue; busy.push(...)
RECURSIVE BusyOf(_)
BusyOf(events) ==
    IF events = <<>> THEN <<>>
    ELSE LET e == Head(events)
         IN  (IF e.allDay THEN <<>> ELSE <<[start |-> e.start, end |-> e.end]>>)
                 \o BusyOf(Tail(events))

\* parseInt(slot.start.toLocaleString("en-IN", { timeZone: "Asia/Kolkata",
\* hour: "numeric", hour12: false }), 10)
IstHour(t) == (t % DayMs) \div HourMs

\* The working-hours test without its lower bound.
InWorkingHoursNoMorning(slot) == IstHour(slot.start) < 18

\* The step rounded up instead of down.
PickStepCeil(n) == Max(1, (n + 5) \div 6)

\* return hour >= 9 && hour < 18
InWorkingHours(slot) == IstHour(slot.start) >= 9 /\ IstHour(slot.start) < 18
WorkingSlots(all) == SelectSeq(all, InWorkingHours)

\* const step = Math.max(1, Math.floor(workingSlots.length / 6))
PickStep(n) == Max(1, n \div 6)

\* for (let i = 0; i < workingSlots.length && suggestions.length < 6; i += step)
\*   suggestions.push(workingSlots[i])        (i counts from 0, sequences from 1)
RECURSIVE PickFrom(_, _, _, _)
PickFrom(working, i, step, acc) ==
    IF i < Len(working) /\ Len(acc) < 6
    THEN PickFrom(working, i + step, step, Append(acc, working[i + 1]))
    ELSE acc
PickSuggestions(working) == PickFrom(working, 0, PickStep(Len(working)), <<>>)

\* The suggestions formatted without the test for an empty list.
SlotsResultNoCheck(picked) == TextResult("Available slots")

\* if (suggestions.length === 0) return { "No available ... fully booked ..." }
\* else the formatted list of suggestions
SlotsResult(picked) ==
    IF Len(picked) = 0
    THEN TextResult("No available slots found: fully booked")
    ELSE TextResult("Available slots")

\* getCalendarClient() builds a client on every call.
ClientOutcomesNoCache ==
    IF env["GOOGLE_KEY_CONTENT"] THEN {"built", "bad_json"}
    ELSE IF env["GOOGLE_KEY_PATH"] THEN {"built", "no_file", "bad_json"}
    ELSE {"no_key"}

\* getCalendarClient(): how the call ends, given the cache and the environment.
ClientOutcomes ==
    IF cachedClient THEN {"cached"}
    ELSE IF env["GOOGLE_KEY_CONTENT"] THEN {"built", "bad_json"}
    ELSE IF env["GOOGLE_KEY_PATH"] THEN {"built", "no_file", "bad_json"}
    ELSE {"no_key"}

CallGetCalendarSlots ==
    \E name \in CallNames : \E args \in ArgsFor(name) :
        /\ pc = "idle"
        /\ Route(name) = "get_calendar_slots"
        /\ callName' = name
        /\ callArgs' = args
        /\ IF ~DurationGiven(args)
           THEN /\ Settle(ErrorResult("ERROR: 'duration' argument must be a positive number (minutes)."))
                /\ UNCHANGED <<executor, requests, cachedClient, slotVars>>
           ELSE /\ executor' = "getCalendarSlots"
                /\ IF ~CalendarConfigured
                   THEN /\ Settle(ErrorResult("ERROR: GOOGLE_CALENDAR_ID or GOOGLE_KEY_PATH not set."))
                        /\ UNCHANGED <<requests, cachedClient, slotVars>>
                   ELSE \E client \in ClientOutcomes :
                          IF client \in {"cached", "built"}
                          THEN \* _cachedClient = google.calendar(...); const now = new Date();
                               \* const response = await calendar.events.list(...)
                               \E now \in CalNows :
                                  /\ cachedClient' = TRUE
                                  /\ windowStart' = now
                                  /\ windowEnd' = now + WindowMs
                                  /\ durationMs' = args["duration"] * 60 * 1000
                                  /\ requests' = Append(requests, Req("events", 0))
                                  /\ pc' = "cal_list"
                                  /\ UNCHANGED <<result, busy, slots, slotPc>>
                          ELSE \* getCalendarClient threw inside the try block
                               /\ Settle(CalendarCatch)
                               /\ UNCHANGED <<requests, cachedClient, slotVars>>
        /\ UNCHANGED <<otherVars, env, ghVars, httpStatus, httpBody, suggestions>>

\* The events.list request settles; on success the rest of getCalendarSlots runs.
CalListResponse ==
    /\ pc = "cal_list"
    /\ \/ /\ Settle(CalendarCatch)
          /\ UNCHANGED <<busy, slots, slotPc, suggestions>>
       \/ \E events \in CalResponsesAt(windowStart) :
             LET b == BusyOf(events)
                 allSlots == computeFreeSlots(b, windowStart, windowEnd, durationMs)
                 picked == PickSuggestions(WorkingSlots(allSlots))
             IN  /\ busy' = SortByStart(b)
                 /\ slots' = allSlots
                 /\ slotPc' = "returned"
                 /\ suggestions' = picked
                 /\ Settle(SlotsResult(picked))
    /\ UNCHANGED <<otherVars, env, cachedClient, callName, callArgs, executor, requests, ghVars,
                   httpStatus, httpBody, windowStart, windowEnd, durationMs>>

(***************************************************************************)
(* send_discord_alert: the dispatch case and sendDiscordAlert              *)
(***************************************************************************)
\* Statuses and bodies the webhook may answer with.
WebhookStatuses == {200, 204, 400, 404, 429, 500}
WebhookBodies == {"", "rate limited"}

\* A success test that knows 204 only.
IsWebhookSuccess204Only(status) == status = 204

\* if (res.status === 204 || res.status === 200)
IsWebhookSuccess(status) == status = 204 \/ status = 200

CallSendDiscordAlert ==
    \E name \in CallNames : \E args \in ArgsFor(name) :
        /\ pc = "idle"
        /\ Route(name) = "send_discord_alert"
        /\ callName' = name
        /\ callArgs' = args
        \* (args?.visitor_name as string) || "Unknown": no argument is rejected
        /\ executor' = "sendDiscordAlert"
        /\ IF ~DiscordConfigured
           THEN /\ Settle(ErrorResult("ERROR: DISCORD_WEBHOOK_URL not set."))
                /\ UNCHANGED requests
           ELSE \* const res = await fetch(webhookUrl, { method: "POST", ... })
                /\ requests' = Append(requests, Req("webhook", 0))
                /\ pc' = "dc_post"
                /\ UNCHANGED result
        /\ UNCHANGED <<otherVars, env, cachedClient, ghVars, httpStatus, httpBody, suggestions, slotVars>>

DcPostResponse ==
    /\ pc = "dc_post"
    /\ \/ /\ Settle(DiscordCatch)
          /\ UNCHANGED <<httpStatus, httpBody>>
       \/ \E status \in WebhookStatuses : \E body \in WebhookBodies :
             /\ httpStatus' = status
             /\ httpBody' = body
             /\ IF IsWebhookSuccess(status)
                THEN Settle(TextResult("Discord alert sent successfully."))
                ELSE \* const errorBody = await res.text()
                     /\ pc' = "dc_body"
                     /\ UNCHANGED result
    /\ UNCHANGED <<otherVars, env, cachedClient, callName, callArgs, executor, requests, ghVars,
                   suggestions, slotVars>>

\* `Discord webhook returned HTTP ${res.status}: ${errorBody}`, isError: true
WebhookFailedResult(status, body) ==
    Res("error", "Discord webhook returned HTTP ", "", status, body)

DcBodyRead ==
    /\ pc = "dc_body"
    /\ \/ Settle(DiscordCatch)                              \* res.text() rejects
       \/ Settle(WebhookFailedResult(httpStatus, httpBody))
    /\ UNCHANGED <<otherVars, env, cachedClient, callName, callArgs, executor, requests, ghVars,
                   httpStatus, httpBody, suggestions, slotVars>>

(***************************************************************************)
(* Unknown tool names, and the end of a call                               *)
(***************************************************************************)
CallUnknownTool ==
    \E name \in CallNames : \E args \in ArgsFor(name) :
        /\ pc = "idle"
        /\ Route(name) = "default"
        /\ callName' = name
        /\ callArgs' = args
        /\ Settle(UnknownToolResult(name))
        /\ UNCHANGED <<otherVars, env, cachedClient, executor, requests, ghVars, httpStatus, httpBody,
                       suggestions, slotVars>>

\* The result was sent to the client; the server waits for the next request.
\* Only process.env and _cachedClient outlive a call.
Return ==
    /\ pc = "done"
    /\ pc' = "idle"
    /\ callName' = ""
    /\ callArgs' = NoArgs
    /\ executor' = "none"
    /\ requests' = <<>>
    /\ result' = NoResult
    /\ searchOutcome' = "none"
    /\ reposOutcome' = "none"
    /\ readmeThrew' = FALSE
    /\ items' = 0
    /\ itemIdx' = 0
    /\ snippets' = 0
    /\ matched' = 0
    /\ repoIdx' = 0
    /\ httpStatus' = 0
    /\ httpBody' = ""
    /\ suggestions' = <<>>
    /\ busy' = <<>>
    /\ windowStart' = 0
    /\ windowEnd' = 0
    /\ durationMs' = 0
    /\ slots' = <<>>
    /\ slotPc' = "input"
    /\ UNCHANGED <<otherVars, env, cachedClient>>

(***************************************************************************)
(* Tool-call detector                                                      *)
(*                                                                         *)
(* Text is a sequence of pieces.  A piece is a run of characters that the  *)
(* pattern and the JSON grammar treat as one unit: the markers "TOOL:" and *)
(* "|ARGS:", a run of word characters, a brace, a colon, a comma, a quoted *)
(* JSON string or number (written here without its quotes), or a stretch   *)
(* of prose.                                                               *)
(***************************************************************************)
MaxArgs == 2    \* most entries of an argument mapping

WordPieces == ToolNames
ArgKeys == {"query", "filter"}
InnerKeys == {"lang"}
ScalarPieces == {"React", "30"}

\* An argument mapping, flattened: one entry per scalar, with the keys that
\* lead to it; an empty object value is the entry with val "{}".
ScalarEntries == [path : {<<k>> : k \in ArgKeys}, val : ScalarPieces]
ObjectEntries ==
    [path : {<<k, i>> : k \in ArgKeys, i \in InnerKeys}, val : ScalarPieces]
        \cup [path : {<<k>> : k \in ArgKeys}, val : {"{}"}]
IsObjectEntry(e) == Len(e.path) > 1 \/ e.val = "{}"
ArgMappings ==
    {m \in SeqsUpTo(ScalarEntries \cup ObjectEntries, MaxArgs) :
        \A i, j \in 1..Len(m) : i # j => m[i].path[1] # m[j].path[1]}

\* "key":value, the value a scalar, {} or {"inner":scalar}
EntryText(e) ==
    IF Len(e.path) > 1
    THEN <<e.path[1], ":", "{", e.path[2], ":", e.val, "}">>
    ELSE IF e.val = "{}" THEN <<e.path[1], ":", "{", "}">>
    ELSE <<e.path[1], ":", e.val>>

RECURSIVE MembersText(_)
MembersText(m) ==
    IF m = <<>> THEN <<>>
    ELSE IF Len(m) = 1 THEN EntryText(m[1])
    ELSE EntryText(m[1]) \o <<",">> \o MembersText(Tail(m))

\* TOOL:<tool_name>|ARGS:{"arg1":"value1","arg2":"value2"}
DirectiveText(name, m) ==
    <<"TOOL:">> \o name \o <<"|ARGS:", "{">> \o MembersText(m) \o <<"}">>

Piece(t, i) == IF i >= 1 /\ i <= Len(t) THEN t[i] ELSE "<end>"

NoMatch == [found |-> FALSE, name |-> <<>>, args |-> <<>>]

\* (\w+): the longest run of word characters from position i; i - 1 if none
RECURSIVE WordRunEnd(_, _)
WordRunEnd(text, i) ==
    IF Piece(text, i) \in WordPieces THEN WordRunEnd(text, i + 1) ELSE i - 1

\* [^}]*\}: everything up to and including the first closing brace; 0 if none
RECURSIVE FirstClose(_, _)
FirstClose(text, i) ==
    IF i > Len(text) THEN 0
    ELSE IF text[i] = "}" THEN i
    ELSE FirstClose(text, i + 1)

\* TOOL:(\w+)\|ARGS:(\{[^}]*\}) matched at position i
MatchAt(text, i) ==
    LET e == WordRunEnd(text, i + 1)
        c == FirstClose(text, e + 3)
    IN  IF /\ Piece(text, i) = "TOOL:"
           /\ e >= i + 1
           /\ Piece(text, e + 1) = "|ARGS:"
           /\ Piece(text, e + 2) = "{"
           /\ c > 0
        THEN [found |-> TRUE, name |-> SubSeq(text, i + 1, e),
              args |-> SubSeq(text, e + 2, c)]
        ELSE NoMatch

\* TOOL_PATTERN.search(text): the leftmost match
RECURSIVE Search(_, _)
Search(text, i) ==
    IF i > Len(text) THEN NoMatch
    ELSE IF MatchAt(text, i).found THEN MatchAt(text, i)
    ELSE Search(text, i + 1)

\* Parsing the ARGS group as JSON.
Failed == [ok |-> FALSE, entries |-> <<>>, next |-> 0]

RECURSIVE ParseMembers(_, _, _)
ParseValue(t, i, path) ==
    IF Piece(t, i) \in ScalarPieces
    THEN [ok |-> TRUE, entries |-> <<[path |-> path, val |-> t[i]]>>, next |-> i + 1]
    ELSE IF Piece(t, i) = "{"
    THEN IF Piece(t, i + 1) = "}"
         THEN [ok |-> TRUE, entries |-> <<[path |-> path, val |-> "{}"]>>,
               next |-> i + 2]
         ELSE ParseMembers(t, i + 1, path)
    ELSE Failed

ParseMembers(t, i, path) ==
    IF Piece(t, i) \in ArgKeys \cup InnerKeys /\ Piece(t, i + 1) = ":"
    THEN LET v == ParseValue(t, i + 2, Append(path, t[i]))
         IN  IF ~v.ok THEN Failed
             ELSE IF Piece(t, v.next) = ","
             THEN LET r == ParseMembers(t, v.next + 1, path)
                  IN  IF r.ok
                      THEN [ok |-> TRUE, entries |-> v.entries \o r.entries,
                            next |-> r.next]
                      ELSE Failed
             ELSE IF Piece(t, v.next) = "}"
             THEN [ok |-> TRUE, entries |-> v.entries, next |-> v.next + 1]
             ELSE Failed
    ELSE Failed

\* json.loads of a text: an object, and nothing after it
ParseJson(t) ==
    LET p == IF Piece(t, 1) # "{" THEN Failed
             ELSE IF Piece(t, 2) = "}"
             THEN [ok |-> TRUE, entries |-> <<>>, next |-> 3]
             ELSE ParseMembers(t, 2, <<>>)
    IN  IF p.ok /\ p.next = Len(t) + 1 THEN p ELSE Failed

NoDirective == [found |-> FALSE, name |-> <<>>, args |-> <<>>]

\* The detector: first match wins, and a match whose ARGS do not parse is
\* discarded.
Detect(text) ==
    LET m == Search(text, 1)
        p == ParseJson(m.args)
    IN  IF m.found /\ p.ok
        THEN [found |-> TRUE, name |-> m.name, args |-> p.entries]
        ELSE NoDirective

\* What the model can write in one pass: a plain answer, an answer that
\* mentions the marker without a directive, one well-formed directive, or a
\* directive whose ARGS are not JSON; each with or without prose around it.
Prefixes == {<<>>, <<"Let me check that for you. ">>}
Suffixes == {<<>>, <<" One moment.">>}
NameTexts == {<<n>> : n \in ToolNames}
PlainAnswers == {<<"I build things with React.">>, <<"I can run ", "TOOL:", "github_search">>}
BadArgs == {<<"{", "query", "}">>, <<"{", "query", ":", "}">>}

Intents ==
    [kind : {"answer"}, name : {<<>>}, args : {<<>>}]
        \cup [kind : {"call"}, name : NameTexts, args : ArgMappings]
        \cup [kind : {"bad_args"}, name : NameTexts, args : {<<>>}]

OutputsFor(i) ==
    IF i.kind = "answer" THEN PlainAnswers
    ELSE IF i.kind = "call"
    THEN {p \o DirectiveText(i.name, i.args) \o s : p \in Prefixes, s \in Suffixes}
    ELSE {p \o <<"TOOL:">> \o i.name \o <<"|ARGS:">> \o b \o s :
            p \in Prefixes, s \in Suffixes, b \in BadArgs}

(***************************************************************************)
(* Orchestration loop: one user turn, at most two passes                   *)
(***************************************************************************)
MaxTurns == 2    \* user turns of one session

NoIntent == [kind |-> "none", name |-> <<>>, args |-> <<>>]

\* What the second pass can produce: a plain answer or another directive.
FinalOutputs ==
    {<<"I build things with React.">>,
     DirectiveText(<<"github_search">>, <<[path |-> <<"query">>, val |-> "React"]>>)}

Entry(role, turn) == [role |-> role, turn |-> turn]

OrchIdle ==
    /\ orchState = "idle"
    /\ conversation = <<>>
    /\ generations = 0
    /\ toolRuns = 0
    /\ turnNo = 0
    /\ intent = NoIntent
    /\ modelOutput = <<>>
    /\ directive = NoDirective

\* Steps 1 and 2: the user message is appended and the first generation is
\* requested over the conversation so far.
UserTurn ==
    /\ orchState \in {"idle", "terminal"}
    /\ turnNo < MaxTurns
    /\ turnNo' = turnNo + 1
    /\ conversation' = Append(conversation, Entry("user", turnNo + 1))
    /\ generations' = 1
    /\ toolRuns' = 0
    /\ intent' = NoIntent
    /\ modelOutput' = <<>>
    /\ directive' = NoDirective
    /\ orchState' = "awaiting-first-response"
    /\ UNCHANGED <<notOrchVars>>

\* Step 4: the first-pass output is the final answer.
ForwardAsIs ==
    /\ conversation' = Append(conversation, Entry("assistant", turnNo))
    /\ orchState' = "terminal"
    /\ UNCHANGED toolRuns

\* Step 5, first half: the directive is handed to the registry.
ExecuteDirective ==
    /\ toolRuns' = toolRuns + 1
    /\ orchState' = "executing-tool"
    /\ UNCHANGED conversation

\* Steps 3 to 5: the detector runs over the accumulated first-pass output.
FirstResponse ==
    /\ orchState = "awaiting-first-response"
    /\ \E i \in Intents : \E text \in OutputsFor(i) :
        /\ intent' = i
        /\ modelOutput' = text
        /\ directive' = Detect(text)
        /\ IF Detect(text).found THEN ExecuteDirective ELSE ForwardAsIs
    /\ UNCHANGED <<generations, turnNo, notOrchVars>>

\* Step 5, second half: the tool has settled; its text is appended as a
\* synthetic entry and the second generation is requested.
ToolSettles ==
    /\ orchState = "executing-tool"
    /\ conversation' = Append(conversation, Entry("tool", turnNo))
    /\ generations' = generations + 1
    /\ orchState' = "awaiting-final-response"
    /\ UNCHANGED <<toolRuns, turnNo, intent, modelOutput, directive, notOrchVars>>

\* The second pass parsed again for a directive.
FinalResponseRedetect ==
    /\ orchState = "awaiting-final-response"
    /\ \E text \in FinalOutputs :
        /\ modelOutput' = text
        /\ IF Detect(text).found THEN ExecuteDirective ELSE ForwardAsIs
    /\ UNCHANGED <<generations, turnNo, intent, directive, notOrchVars>>

\* The second-pass output is streamed as the final answer, unparsed.
FinalResponse ==
    /\ orchState = "awaiting-final-response"
    /\ \E text \in FinalOutputs :
        /\ modelOutput' = text
        /\ ForwardAsIs
    /\ UNCHANGED <<generations, turnNo, intent, directive, notOrchVars>>

(***************************************************************************)
(* get_calendar_slots calls overlapping in one process                     *)
(*                                                                         *)
(* A handler runs without interruption up to its first await, so the       *)
(* configuration check, getCalendarClient() and the issue of events.list   *)
(* are one step of a call; the calls interleave at the await.              *)
(***************************************************************************)
MaxCalls == 3    \* calls of one process

Calls == 1..MaxCalls
notCallsVars == <<slotVars, env, pc, callName, callArgs, executor, requests, result,
                  ghVars, httpStatus, httpBody, suggestions, orchVars, truncVars,
                  chatVars, healthVars, sweepVars>>

CallsIdle ==
    /\ callPc = [c \in Calls |-> "idle"]
    /\ clientOf = [c \in Calls |-> 0]
    /\ built = 0

\* getCalendarSlots up to `await calendar.events.list(...)`.
CalStart(c) ==
    /\ callPc[c] = "idle"
    /\ IF ~CalendarConfigured
       THEN /\ callPc' = [callPc EXCEPT ![c] = "config_error"]
            /\ UNCHANGED <<cachedClient, clientOf, built>>
       ELSE \E client \in ClientOutcomes :
              CASE client = "cached" ->
                      /\ clientOf' = [clientOf EXCEPT ![c] = built]
                      /\ callPc' = [callPc EXCEPT ![c] = "cal_list"]
                      /\ UNCHANGED <<cachedClient, built>>
                [] client = "built" ->
                      /\ built' = built + 1
                      /\ cachedClient' = TRUE
                      /\ clientOf' = [clientOf EXCEPT ![c] = built + 1]
                      /\ callPc' = [callPc EXCEPT ![c] = "cal_list"]
                [] OTHER ->
                      /\ callPc' = [callPc EXCEPT ![c] = "threw"]
                      /\ UNCHANGED <<cachedClient, clientOf, built>>
    /\ UNCHANGED notCallsVars

\* events.list settles and the call returns.
CalFinish(c) ==
    /\ callPc[c] = "cal_list"
    /\ callPc' = [callPc EXCEPT ![c] = "done"]
    /\ UNCHANGED <<cachedClient, clientOf, built, notCallsVars>>

CallsStart == \E c \in Calls : CalStart(c)
CallsFinish == \E c \in Calls : CalFinish(c)

(***************************************************************************)
(* getCalendarSlots: the working-hours filter and the choice of            *)
(* suggestions, on lists of every length                                   *)
(***************************************************************************)
MaxCandidates == 18    \* most slots handed to the filter

CandidateStarts == {8 * HourMs, 9 * HourMs, 13 * HourMs + QuarterMs, 16 * HourMs}

\* allSlots has been computed over an empty calendar: a run of 0 to
\* MaxCandidates half-hour steps from one of the starts.
SuggestInit ==
    /\ busy = <<>>
    /\ windowStart \in CandidateStarts
    /\ \E n \in 0..MaxCandidates : windowEnd = windowStart + n * StepMs
    /\ durationMs \in Durations
    /\ slots = computeFreeSlots(busy, windowStart, windowEnd, durationMs)
    /\ slotPc = "candidates"

\* const workingSlots = allSlots.filter(...); const step = ...; for (...) push
PickSuggest ==
    /\ slotPc = "candidates"
    /\ suggestions' = PickSuggestions(WorkingSlots(slots))
    /\ slotPc' = "suggested"
    /\ UNCHANGED <<busy, windowStart, windowEnd, durationMs, slots, env, cachedClient,
                   pc, callName, callArgs, executor, requests, result, ghVars,
                   httpStatus, httpBody, otherVars>>

(***************************************************************************)
(* truncateCode(code, maxLines = 40)                                       *)
(*                                                                         *)
(* A text is the sequence of its lines (code.split("\n")), each line named *)
(* by its number; the returned text is a sequence of items: input lines,   *)
(* blank lines and the marker line with the count it prints.               *)
(***************************************************************************)
MaxLines == 45           \* longest text handed to truncateCode, in lines

DefaultMaxLines == 40    \* maxLines = 40
ReadmeMaxLines == 20     \* truncateCode(readme, 20)
HeadLines == 20          \* lines.slice(0, 20)
TailLines == 15          \* lines.slice(lines.length - 15)
ShownLines == 35         \* ${lines.length - 35} lines omitted

Line(i) == [kind |-> "line", v |-> i]
Blank == [kind |-> "blank", v |-> 0]
Marker(k) == [kind |-> "marker", v |-> k]
AsItems(lines) == [k \in 1..Len(lines) |-> Line(lines[k])]

\* Array.prototype.slice(start, end) with end >= 0 and any start: a negative
\* start counts from the end of the array.
Slice(lines, start, end) ==
    LET from == IF start < 0 THEN Max(Len(lines) + start, 0) ELSE Min(start, Len(lines))
        to == Min(end, Len(lines))
    IN  SubSeq(lines, from + 1, to)

\* One line more than the source keeps of the end.
TailOfSixteen(lines) == Slice(lines, Len(lines) - (TailLines + 1), Len(lines))

\* lines.slice(lines.length - 15)
TailOf(lines) == Slice(lines, Len(lines) - TailLines, Len(lines))

truncateCode(lines, limit) ==
    IF Len(lines) <= limit THEN AsItems(lines)
    ELSE AsItems(Slice(lines, 0, HeadLines))
            \o <<Blank, Marker(Len(lines) - ShownLines), Blank>>
            \o AsItems(TailOf(lines))

TruncIdle ==
    /\ code = <<>>
    /\ maxLines = DefaultMaxLines
    /\ truncated = <<>>
    /\ truncPc = "idle"

\* truncateCode is about to be called on a text of 1 to MaxLines lines, with
\* the default limit or the limit given for README excerpts.
TruncInit ==
    /\ code \in {[k \in 1..n |-> k] : n \in 1..MaxLines}
    /\ maxLines \in {DefaultMaxLines, ReadmeMaxLines}
    /\ truncated = <<>>
    /\ truncPc = "input"

TruncateCode ==
    /\ truncPc = "input"
    /\ truncated' = truncateCode(code, maxLines)
    /\ truncPc' = "returned"
    /\ UNCHANGED <<code, maxLines, notTruncVars>>

(***************************************************************************)
(* Chat client (App, Chat) and the event stream of the server              *)
(*                                                                         *)
(* The text of a message is the sequence of the pieces it was built from:  *)
(* a token is named by the user turn the server produced it for and its    *)
(* number in that turn.                                                    *)
(***************************************************************************)
MaxSends == 2     \* user messages submitted in one session
MaxTokens == 2    \* tokens the server streams for one turn

Turns == 1..MaxSends
Token(t, k) == [turn |-> t, k |-> k]
Greeting == <<Token(0, 0)>>
Msg(role, content, turn) == [role |-> role, content |-> content, turn |-> turn]
Event(type, t, k) == [type |-> type, turn |-> t, k |-> k]

\* useState initial values, the socket being created on mount
ChatInit ==
    /\ messages = <<Msg("assistant", Greeting, 0)>>
    /\ isStreaming = FALSE
    /\ isActive = FALSE
    /\ readyState = "CONNECTING"
    /\ outbox = <<>>
    /\ inbox = <<>>
    /\ serverTurn = 0
    /\ serverTokens = 0
    /\ sends = 0
    /\ arrived = [t \in Turns |-> <<>>]

\* The connection is established.
WsOpen ==
    /\ readyState = "CONNECTING"
    /\ readyState' = "OPEN"
    /\ UNCHANGED <<messages, isStreaming, isActive, outbox, inbox, serverTurn,
                   serverTokens, sends, arrived, notChatVars>>

\* Chat.handleSubmit with a non-blank input, then App.handleSendMessage.
HandleSendMessage ==
    /\ sends < MaxSends
    /\ sends' = sends + 1
    /\ messages' = Append(messages, Msg("user", <<>>, sends + 1))
    /\ IF readyState = "OPEN"
       THEN /\ outbox' = Append(outbox, sends + 1)
            /\ isActive' = TRUE
            /\ isStreaming' = TRUE
       ELSE /\ isActive' = FALSE
            /\ isStreaming' = FALSE
            /\ UNCHANGED outbox
    /\ UNCHANGED <<readyState, inbox, serverTurn, serverTokens, arrived, notChatVars>>

\* The token replaces the text of the last assistant message.
AppendTokenReplace(prev, tok) ==
    LET lastMsg == prev[Len(prev)]
    IN  IF Len(prev) > 0 /\ lastMsg.role = "assistant"
        THEN [prev EXCEPT ![Len(prev)] = Msg("assistant", <<tok>>, lastMsg.turn)]
        ELSE Append(prev, Msg("assistant", <<tok>>, 0))

\* setMessages(prev => ...) of the token branch
AppendToken(prev, tok) ==
    LET lastMsg == prev[Len(prev)]
    IN  IF Len(prev) > 0 /\ lastMsg.role = "assistant"
        THEN [prev EXCEPT ![Len(prev)] =
                    Msg("assistant", lastMsg.content \o <<tok>>, lastMsg.turn)]
        ELSE Append(prev, Msg("assistant", <<tok>>, 0))

\* ws.current.onmessage
OnMessage ==
    /\ readyState = "OPEN"
    /\ inbox # <<>>
    /\ LET data == Head(inbox)
       IN  /\ inbox' = Tail(inbox)
           /\ CASE data.type = "log" ->
                     UNCHANGED <<messages, isStreaming, isActive, arrived>>
                [] data.type = "token" ->
                     /\ messages' = AppendToken(messages, Token(data.turn, data.k))
                     /\ arrived' = [arrived EXCEPT ![data.turn] =
                                        Append(@, Token(data.turn, data.k))]
                     /\ UNCHANGED <<isStreaming, isActive>>
                [] data.type \in {"done", "error"} ->
                     /\ isActive' = FALSE
                     /\ isStreaming' = FALSE
                     /\ UNCHANGED <<messages, arrived>>
    /\ UNCHANGED <<readyState, outbox, serverTurn, serverTokens, sends, notChatVars>>

\* ws.current.onclose: the connection failed or was lost; what was in flight
\* either way is gone and the server abandons its turn.
OnClose ==
    /\ readyState \in {"CONNECTING", "OPEN"}
    /\ readyState' = "CLOSED"
    /\ outbox' = <<>>
    /\ inbox' = <<>>
    /\ serverTurn' = 0
    /\ serverTokens' = 0
    /\ UNCHANGED <<messages, isStreaming, isActive, sends, arrived, notChatVars>>

\* The server takes the next user message and may announce a status notice.
ServerReceive ==
    /\ readyState = "OPEN"
    /\ serverTurn = 0
    /\ outbox # <<>>
    /\ serverTurn' = Head(outbox)
    /\ outbox' = Tail(outbox)
    /\ serverTokens' = 0
    /\ \/ inbox' = Append(inbox, Event("log", Head(outbox), 0))
       \/ UNCHANGED inbox
    /\ UNCHANGED <<messages, isStreaming, isActive, readyState, sends, arrived,
                   notChatVars>>

\* The server streams one more token of the turn it is working on.
ServerToken ==
    /\ readyState = "OPEN"
    /\ serverTurn # 0
    /\ serverTokens < MaxTokens
    /\ serverTokens' = serverTokens + 1
    /\ inbox' = Append(inbox, Event("token", serverTurn, serverTokens + 1))
    /\ UNCHANGED <<messages, isStreaming, isActive, readyState, outbox, serverTurn,
                   sends, arrived, notChatVars>>

\* The server ends the turn with its "done" signal or an error notice.
ServerEnd ==
    /\ readyState = "OPEN"
    /\ serverTurn # 0
    /\ \E type \in {"done", "error"} :
            inbox' = Append(inbox, Event(type, serverTurn, 0))
    /\ serverTurn' = 0
    /\ serverTokens' = 0
    /\ UNCHANGED <<messages, isStreaming, isActive, readyState, outbox, sends,
                   arrived, notChatVars>>

(***************************************************************************)
(* ServerHealthCheck: the polling effect and the Retry button              *)
(*                                                                         *)
(* Each run of the effect makes a closure with its own isMounted and       *)
(* timeoutId; closures are numbered in the order they are made, and the    *)
(* one of the latest run is the only one whose isMounted is still true.    *)
(* A change of retryCount makes React clean the effect up and run it again *)
(* in the tasks it queues at once, well before a timer of retryInterval    *)
(* (10 seconds by default) set in the same step can fire.                  *)
(***************************************************************************)
MaxRetries == 3    \* the maxRetries prop (18 by default)
MaxPresses == 2    \* presses of the Retry button

HealthInit ==
    /\ hcStatus = "checking"
    /\ retryCount = 0
    /\ hcMounted = TRUE
    /\ effectDirty = TRUE
    /\ effectGen = 0
    /\ closureRetry = 0
    /\ inflight = {}
    /\ retryTimer = 0
    /\ readyTimer = FALSE
    /\ issued = 0
    /\ presses = 0

\* if (retryCount <= maxRetries)
CanRetryInclusive(count) == count <= MaxRetries

\* if (retryCount < maxRetries)
CanRetry(count) == count < MaxRetries

\* The effect runs (on mount, or again because retryCount changed): the
\* previous run's cleanup sets its isMounted to false and clears its timer,
\* then checkHealth() is called and runs up to `await fetch(...)`.
HcRunEffect ==
    /\ hcMounted
    /\ effectDirty
    /\ effectDirty' = FALSE
    /\ effectGen' = effectGen + 1
    /\ closureRetry' = retryCount
    /\ retryTimer' = 0
    /\ inflight' = inflight \cup {effectGen + 1}
    /\ issued' = issued + 1
    /\ UNCHANGED <<hcStatus, retryCount, hcMounted, readyTimer, presses, notHealthVars>>

\* The request of closure g settles: response.ok, or a response that is not
\* ok, a rejection or the abort after 8 seconds.
HcResponse(g, ok) ==
    /\ g \in inflight
    /\ inflight' = inflight \ {g}
    /\ IF ~(hcMounted /\ g = effectGen)
       THEN UNCHANGED <<hcStatus, retryCount, effectDirty, retryTimer, readyTimer>>
       ELSE IF ok
       THEN /\ hcStatus' = "ready"
            /\ readyTimer' = TRUE
            /\ UNCHANGED <<retryCount, effectDirty, retryTimer>>
       ELSE IF CanRetry(closureRetry)
       THEN /\ hcStatus' = "waking"
            /\ retryCount' = retryCount + 1
            /\ retryTimer' = g
            /\ effectDirty' = TRUE
            /\ UNCHANGED readyTimer
       ELSE /\ hcStatus' = "error"
            /\ UNCHANGED <<retryCount, effectDirty, retryTimer, readyTimer>>
    /\ UNCHANGED <<hcMounted, effectGen, closureRetry, issued, presses, notHealthVars>>

HcResponseOk == \E g \in inflight : HcResponse(g, TRUE)
HcResponseFailed == \E g \in inflight : HcResponse(g, FALSE)

\* setTimeout(() => { onServerReady() }, 500) fires.
HcReadyTimer ==
    /\ readyTimer
    /\ readyTimer' = FALSE
    /\ UNCHANGED <<hcStatus, retryCount, hcMounted, effectDirty, effectGen, closureRetry,
                   inflight, retryTimer, issued, presses, notHealthVars>>

\* The Retry Connection button, shown while status is 'error'.
HcRetryButton ==
    /\ hcMounted
    /\ hcStatus = "error"
    /\ presses < MaxPresses
    /\ presses' = presses + 1
    /\ retryCount' = 0
    /\ hcStatus' = "checking"
    /\ effectDirty' = (retryCount # 0)
    /\ UNCHANGED <<hcMounted, effectGen, closureRetry, inflight, retryTimer, readyTimer,
                   issued, notHealthVars>>

\* The component is unmounted: the cleanup of the last run.
HcUnmount ==
    /\ hcMounted
    /\ hcMounted' = FALSE
    /\ effectDirty' = FALSE
    /\ retryTimer' = 0
    /\ UNCHANGED <<hcStatus, retryCount, effectGen, closureRetry, inflight, readyTimer,
                   issued, presses, notHealthVars>>

(***************************************************************************)
(* computeFreeSlots, one loop iteration at a time                          *)
(*                                                                         *)
(* durationMs is a double: durationMinutes * 60 * 1000.  NegInfinity       *)
(* stands for the double -Infinity, for which t + durationMs is -Infinity  *)
(* whatever t is, and -Infinity is below every bound.  HeapLimit stands    *)
(* for the number of slots the process can hold before the engine stops it *)
(* for lack of memory; it is above what any finite duration of the domain  *)
(* can make the loops push.                                                *)
(***************************************************************************)
NegInfinity == 0 - DayMs
HeapLimit == (MaxBusy + 1) * (MaxTick + 3)
SweepDurations == AnyDurations \cup {NegInfinity}

\* t + durationMs
Plus(t, d) == IF d = NegInfinity THEN NegInfinity ELSE t + d

\* t + durationMs <= bound
Fits(t, d, bound) == Plus(t, d) = NegInfinity \/ Plus(t, d) <= bound

\* bound - cursor >= durationMs
GapAtLeast(cursor, bound, d) == d = NegInfinity \/ bound - cursor >= d

SweepIdle ==
    /\ loopCursor = 0
    /\ loopBlock = 0
    /\ loopT = 0

SweepInit ==
    /\ busy \in SeqsUpTo(AnyIntervals, MaxBusy)
    /\ windowStart \in AnyWindowStarts
    /\ windowEnd \in Times
    /\ durationMs \in SweepDurations
    /\ slots = <<>>
    /\ slotPc = "input"
    /\ SweepIdle

\* The bound of the emission loop the call is in: the start of the current
\* block, or the end of the window after the last block.
LoopBound ==
    IF slotPc = "gap" THEN busy[loopBlock].start ELSE windowEnd

\* busy.sort(...); let cursor = windowStart.getTime();
SweepStart ==
    /\ slotPc = "input"
    /\ busy' = SortByStart(busy)
    /\ loopCursor' = windowStart
    /\ loopBlock' = 1
    /\ slotPc' = "block"
    /\ UNCHANGED <<windowStart, windowEnd, durationMs, slots, loopT, toolVars, notSweepVars>>

\* for (const block of busy): the gap test before the block.
SweepBlock ==
    /\ slotPc = "block"
    /\ loopBlock <= Len(busy)
    /\ IF GapAtLeast(loopCursor, busy[loopBlock].start, durationMs)
       THEN /\ loopT' = loopCursor
            /\ slotPc' = "gap"
       ELSE /\ slotPc' = "move"
            /\ UNCHANGED loopT
    /\ UNCHANGED <<busy, windowStart, windowEnd, durationMs, slots, loopCursor, loopBlock,
                   toolVars, notSweepVars>>

\* One iteration of either while loop: push a slot, t += 30 * 60 * 1000.
SweepEmit ==
    /\ slotPc \in {"gap", "finalGap"}
    /\ Fits(loopT, durationMs, LoopBound)
    /\ Len(slots) < HeapLimit
    /\ slots' = Append(slots, [start |-> loopT, end |-> Plus(loopT, durationMs)])
    /\ loopT' = loopT + StepMs
    /\ UNCHANGED <<busy, windowStart, windowEnd, durationMs, slotPc, loopCursor, loopBlock,
                   toolVars, notSweepVars>>

\* The push for which no memory is left: the engine stops the process.
SweepExhausted ==
    /\ slotPc \in {"gap", "finalGap"}
    /\ Fits(loopT, durationMs, LoopBound)
    /\ Len(slots) = HeapLimit
    /\ slotPc' = "exhausted"
    /\ UNCHANGED <<busy, windowStart, windowEnd, durationMs, slots, loopCursor, loopBlock,
                   loopT, toolVars, notSweepVars>>

\* The while loop before a block ends: the slot no longer fits.
SweepLeaveGap ==
    /\ slotPc = "gap"
    /\ ~Fits(loopT, durationMs, LoopBound)
    /\ slotPc' = "move"
    /\ UNCHANGED <<busy, windowStart, windowEnd, durationMs, slots, loopCursor, loopBlock,
                   loopT, toolVars, notSweepVars>>

\* if (blockEnd > cursor) cursor = blockEnd; and on to the next block.
SweepMove ==
    /\ slotPc = "move"
    /\ loopCursor' = MoveCursor(loopCursor, busy[loopBlock].end)
    /\ loopBlock' = loopBlock + 1
    /\ slotPc' = "block"
    /\ UNCHANGED <<busy, windowStart, windowEnd, durationMs, slots, loopT, toolVars,
                   notSweepVars>>

\* After the last block: the gap test against windowEnd.
SweepFinal ==
    /\ slotPc = "block"
    /\ loopBlock > Len(busy)
    /\ IF GapAtLeast(loopCursor, windowEnd, durationMs)
       THEN /\ loopT' = loopCursor
            /\ slotPc' = "finalGap"
       ELSE /\ slotPc' = "returned"
            /\ UNCHANGED loopT
    /\ UNCHANGED <<busy, windowStart, windowEnd, durationMs, slots, loopCursor, loopBlock,
                   toolVars, notSweepVars>>

\* The last while loop ends; return slots.
SweepReturn ==
    /\ slotPc = "finalGap"
    /\ ~Fits(loopT, durationMs, LoopBound)
    /\ slotPc' = "returned"
    /\ UNCHANGED <<busy, windowStart, windowEnd, durationMs, slots, loopCursor, loopBlock,
                   loopT, toolVars, notSweepVars>>

(***************************************************************************)
(* Specifications                                                          *)
(***************************************************************************)
\* No tool call in progress and nothing configured.
ToolIdle ==
    /\ env = [k \in EnvKeys |-> FALSE]
    /\ NoCall

\* No call of computeFreeSlots in progress.
SlotIdle ==
    /\ busy = <<>>
    /\ windowStart = 0
    /\ windowEnd = 0
    /\ durationMs = 0
    /\ slots = <<>>
    /\ slotPc = "input"

\* computeFreeSlots is about to be called on a busy list built from calendar
\* events, a window that ends after it starts and a positive duration.
SlotInit ==
    /\ busy \in SeqsUpTo(Intervals, MaxBusy)
    /\ windowStart \in WindowStarts
    /\ windowEnd \in {t \in Times : t > windowStart}
    /\ durationMs \in Durations
    /\ slots = <<>>
    /\ slotPc = "input"

\* computeFreeSlots is about to be called on any arguments at all.
SlotInitAny ==
    /\ busy \in SeqsUpTo(AnyIntervals, MaxBusy)
    /\ windowStart \in AnyWindowStarts
    /\ windowEnd \in Times
    /\ durationMs \in AnyDurations
    /\ slots = <<>>
    /\ slotPc = "input"

\* const allSlots = computeFreeSlots(busy, now, windowEnd, durationMs)
ComputeFreeSlots ==
    /\ slotPc = "input"
    /\ slots' = computeFreeSlots(busy, windowStart, windowEnd, durationMs)
    /\ busy' = SortByStart(busy)
    /\ slotPc' = "returned"
    /\ UNCHANGED <<windowStart, windowEnd, durationMs, toolVars, otherVars>>

\* Nothing outside the tool server is in progress.
OtherIdle == OrchIdle /\ CallsIdle /\ TruncIdle /\ ChatInit /\ HealthInit /\ SweepIdle

Init == SlotInit /\ ToolIdle /\ OtherIdle
Next == ComputeFreeSlots
Spec == Init /\ [][Next]_vars

InitAny == SlotInitAny /\ ToolIdle /\ OtherIdle
SpecAnyInput == InitAny /\ [][Next]_vars

InitTools == ToolInit /\ SlotIdle /\ OtherIdle
NextTools ==
    \/ CallGithubSearch
    \/ GhSearchResponse
    \/ GhSearchJson
    \/ GhFileResponse
    \/ GhFileJson
    \/ GhReposResponse
    \/ GhReposJson
    \/ GhReadmeResponse
    \/ GhReadmeJson
    \/ CallGetCalendarSlots
    \/ CalListResponse
    \/ CallSendDiscordAlert
    \/ DcPostResponse
    \/ DcBodyRead
    \/ CallUnknownTool
    \/ Return
SpecTools == InitTools /\ [][NextTools]_vars

InitOrch == OrchIdle /\ SlotIdle /\ ToolIdle /\ CallsIdle /\ TruncIdle /\ ChatInit /\ HealthInit
                /\ SweepIdle
NextOrch ==
    \/ UserTurn
    \/ FirstResponse
    \/ ToolSettles
    \/ FinalResponse
SpecOrch == InitOrch /\ [][NextOrch]_vars

InitSuggest == SuggestInit /\ ToolIdle /\ OtherIdle
NextSuggest == PickSuggest
SpecSuggest == InitSuggest /\ [][NextSuggest]_vars

InitCalls == ToolInit /\ SlotIdle /\ OrchIdle /\ CallsIdle /\ TruncIdle /\ ChatInit /\ HealthInit
                /\ SweepIdle

InitTruncate == TruncInit /\ SlotIdle /\ ToolIdle /\ OrchIdle /\ CallsIdle /\ ChatInit /\ HealthInit
                /\ SweepIdle
NextTruncate == TruncateCode
SpecTruncate == InitTruncate /\ [][NextTruncate]_vars

InitChat == ChatInit /\ SlotIdle /\ ToolIdle /\ OrchIdle /\ CallsIdle /\ TruncIdle /\ HealthInit
                /\ SweepIdle
NextChat ==
    \/ WsOpen
    \/ HandleSendMessage
    \/ OnMessage
    \/ OnClose
    \/ ServerReceive
    \/ ServerToken
    \/ ServerEnd
SpecChat == InitChat /\ [][NextChat]_vars

InitHealth == HealthInit /\ SlotIdle /\ ToolIdle /\ OrchIdle /\ CallsIdle /\ TruncIdle
                /\ ChatInit /\ SweepIdle
NextHealth ==
    \/ HcRunEffect
    \/ HcResponseOk
    \/ HcResponseFailed
    \/ HcReadyTimer
    \/ HcRetryButton
    \/ HcUnmount
SpecHealth == InitHealth /\ [][NextHealth]_vars

\* A call of computeFreeSlots runs to its end without waiting for anything:
\* as long as a step of it is possible, one is taken.
InitSweep == SweepInit /\ ToolIdle /\ OrchIdle /\ CallsIdle /\ TruncIdle /\ ChatInit
                /\ HealthInit
NextSweep ==
    \/ SweepStart
    \/ SweepBlock
    \/ SweepEmit
    \/ SweepExhausted
    \/ SweepLeaveGap
    \/ SweepMove
    \/ SweepFinal
    \/ SweepReturn
SpecSweep == InitSweep /\ [][NextSweep]_vars /\ WF_vars(NextSweep)
NextCalls ==
    \/ CallsStart
    \/ CallsFinish
SpecCalls == InitCalls /\ [][NextCalls]_vars

(***************************************************************************)
(* Properties of computeFreeSlots                                          *)
(***************************************************************************)
Overlaps(s, b) == s.start < b.end /\ b.start < s.end

\* C1: for every busy list, window and positive duration, no returned slot
\* overlaps a busy interval of the list.
C1_SlotsDisjointFromBusy ==
    (slotPc = "returned" /\ durationMs > 0) =>
        \A s \in Range(slots) : \A b \in Range(busy) : ~Overlaps(s, b)

\* Slots were returned around two busy intervals, the second contained in the first.
C1_Witness ==
    /\ slotPc = "returned"
    /\ durationMs > 0
    /\ Len(slots) >= 2
    /\ Len(busy) = 2
    /\ busy[1].start < busy[2].start
    /\ busy[2].end < busy[1].end

\* C2: every returned slot lies within the window, whether or not the busy
\* intervals do.
C2_SlotsWithinWindow ==
    slotPc = "returned" =>
        \A s \in Range(slots) : s.start >= windowStart /\ s.end <= windowEnd

\* C3: every returned slot spans exactly the requested duration.
C3_SlotSpanIsDuration ==
    slotPc = "returned" =>
        \A s \in Range(slots) : s.end - s.start = durationMs

\* Slots longer than the step were returned, so consecutive slots overlap.
C3_Witness ==
    /\ slotPc = "returned"
    /\ durationMs > StepMs
    /\ Len(slots) >= 2
    /\ busy # <<>>

\* The free gaps of the window: the maximal intervals [g, h] inside the window
\* that no busy interval overlaps.
GapPoints ==
    {windowStart, windowEnd} \cup {b.start : b \in Range(busy)}
                             \cup {b.end : b \in Range(busy)}
IsFree(g, h) ==
    /\ windowStart <= g /\ g < h /\ h <= windowEnd
    /\ \A b \in Range(busy) : ~(b.start < h /\ g < b.end)
MaximalGaps ==
    {gh \in GapPoints \X GapPoints :
        /\ IsFree(gh[1], gh[2])
        /\ \A o \in GapPoints \X GapPoints :
              (IsFree(o[1], o[2]) /\ o[1] <= gh[1] /\ gh[2] <= o[2]) => o = gh}
\* The slots [g + k*30min, g + k*30min + d] that fit into the gap [g, h].
RefGapSlots(g, h, d) ==
    LET ks == {k \in 0..(2 * MaxTick) : g + k * StepMs + d <= h}
    IN  [i \in 1..Cardinality(ks) |->
            [start |-> g + (i - 1) * StepMs, end |-> g + (i - 1) * StepMs + d]]
RECURSIVE RefSlots(_, _)
RefSlots(gaps, d) ==
    IF gaps = {} THEN <<>>
    ELSE LET first == CHOOSE gh \in gaps : \A o \in gaps : gh[1] <= o[1]
         IN  RefGapSlots(first[1], first[2], d) \o RefSlots(gaps \ {first}, d)

\* C4: the returned list is exactly the reference list: gap by gap in time
\* order, the slots at 30-minute offsets from the gap's start that fit the gap.
C4_SlotsAreReference ==
    slotPc = "returned" => slots = RefSlots(MaximalGaps, durationMs)

(***************************************************************************)
(* Properties of the dispatch handler and the executors                    *)
(***************************************************************************)
InCall == pc # "idle"

\* C5: a call to a registered tool that omits a key its schema requires
\* returns an error result, invokes no executor and makes no outbound request.
C5_MissingRequiredRejected ==
    (InCall /\ callName \in ToolNames
            /\ \E k \in RequiredKeys(callName) : k \notin DOMAIN callArgs) =>
        /\ result.kind = "error"
        /\ executor = "none"
        /\ requests = <<>>

\* C6: a call naming no registered tool returns an error result that names the
\* tool, invokes no executor and makes no outbound request.
C6_UnknownToolRejected ==
    (InCall /\ callName \notin ToolNames) =>
        /\ result.kind = "error"
        /\ result.msg = "Unknown tool: "
        /\ result.about = callName
        /\ executor = "none"
        /\ requests = <<>>

\* The handler answered a call to a tool that does not exist.
C6_Witness ==
    /\ pc = "done"
    /\ callName = "book_meeting"
    /\ result = UnknownToolResult("book_meeting")

\* C7: every tool call settles to a text or an error result; whichever step
\* fails, no exception leaves the call, and a suspended call can always go on.
C7_NoExceptionEscapes ==
    /\ result.kind # "thrown"
    /\ pc = "done" => result.kind \in {"text", "error"}
    /\ pc \notin {"idle", "done"} => (result.kind = "none" /\ ENABLED NextTools)

\* A README request of the fallback failed and the call still returned a result.
C7_Witness ==
    /\ pc = "done"
    /\ executor = "githubSearch"
    /\ readmeThrew
    /\ result.kind = "error"

\* C8: with its configuration missing, a tool returns an error result and
\* makes no outbound request.
ConfigMissing ==
    \/ executor = "githubSearch" /\ ~(env["GITHUB_TOKEN"] /\ env["GITHUB_USERNAME"])
    \/ executor = "getCalendarSlots"
          /\ (~env["GOOGLE_CALENDAR_ID"]
                 \/ ~(env["GOOGLE_KEY_PATH"] \/ env["GOOGLE_KEY_CONTENT"]))
    \/ executor = "sendDiscordAlert" /\ ~env["DISCORD_WEBHOOK_URL"]
C8_MissingConfigNoRequest ==
    (InCall /\ ConfigMissing) =>
        /\ result.kind = "error"
        /\ requests = <<>>
        /\ pc = "done"

\* An alert was asked for with no webhook URL configured, while the GitHub
\* configuration was complete.
C8_Witness ==
    /\ pc = "done"
    /\ executor = "sendDiscordAlert"
    /\ ~env["DISCORD_WEBHOOK_URL"]
    /\ env["GITHUB_TOKEN"] /\ env["GITHUB_USERNAME"]
    /\ result = ErrorResult("ERROR: DISCORD_WEBHOOK_URL not set.")

PrimaryFailedOrEmpty == searchOutcome \in {"http_error", "empty"}
ListingFailed == reposOutcome \in {"reject", "http_error", "json_reject"}

\* C9 as claimed: after a failed or empty code search the repository listing is
\* requested next, and the result is a failure only if the listing itself failed.
C9_FailureOnlyIfListingFails ==
    (InCall /\ PrimaryFailedOrEmpty) =>
        /\ Len(requests) >= 2
        /\ requests[1] = Req("search", 0)
        /\ requests[2] = Req("repos", 0)
        /\ result.kind = "error" => ListingFailed

\* C9 as amended: ... the result is a failure only if a request of the
\* fallback failed: the listing, or a README request that threw.
C9_FailureOnlyIfFallbackFails ==
    (InCall /\ PrimaryFailedOrEmpty) =>
        /\ Len(requests) >= 2
        /\ requests[1] = Req("search", 0)
        /\ requests[2] = Req("repos", 0)
        /\ result.kind = "error" => (ListingFailed \/ readmeThrew)
        /\ (reposOutcome = "ok" /\ pc = "done" /\ ~readmeThrew) => result.kind = "text"

\* The code search found nothing and the fallback answered with repositories.
C9_Witness ==
    /\ pc = "done"
    /\ searchOutcome = "empty"
    /\ reposOutcome = "ok"
    /\ matched >= 2
    /\ result = TextResult("Repos matching ")

WebhookAnswered == executor = "sendDiscordAlert" /\ pc = "done" /\ httpStatus # 0

\* C10 as claimed: success exactly for status 200 or 204; for any other status
\* an error result carrying the status and the response body; one request.
C10_SuccessIff200or204 ==
    WebhookAnswered =>
        /\ result.kind = "text" <=> httpStatus \in {200, 204}
        /\ httpStatus \notin {200, 204} =>
              result = WebhookFailedResult(httpStatus, httpBody)
        /\ Len(requests) = 1

\* C10 as amended: ... an error result, which carries the status and the
\* response body unless reading the body failed.
C10_SuccessIff200or204BodyRead ==
    /\ WebhookAnswered =>
          /\ result.kind = "text" <=> httpStatus \in {200, 204}
          /\ httpStatus \notin {200, 204} =>
                /\ result.kind = "error"
                /\ result \in {WebhookFailedResult(httpStatus, httpBody), DiscordCatch}
    /\ (executor = "sendDiscordAlert" /\ DiscordConfigured) =>
          requests = <<Req("webhook", 0)>>

\* The webhook refused the alert and the refusal was reported with its body.
C10_Witness ==
    /\ pc = "done"
    /\ httpStatus = 429
    /\ result = WebhookFailedResult(429, "rate limited")

(***************************************************************************)
(* Properties of the orchestration loop and the detector                   *)
(***************************************************************************)
ToolResultAppended ==
    \E k \in 1..Len(conversation) : conversation[k] = Entry("tool", turnNo)

\* C11: in one user turn the model is asked for at most two generations and
\* at most one tool is executed; the second generation is requested exactly
\* when the first-pass output held a directive, and only once the tool has
\* settled and its result is in the conversation; a directive in the
\* second-pass output starts no further tool execution.
C11_TwoPassesOneTool ==
    /\ generations <= 2
    /\ toolRuns <= 1
    /\ generations = 2 => directive.found /\ toolRuns = 1 /\ ToolResultAppended
    /\ orchState = "awaiting-final-response" =>
            conversation[Len(conversation)] = Entry("tool", turnNo)
    /\ orchState = "terminal" => (generations = 2 <=> directive.found)
    /\ orchState = "terminal" => (toolRuns = 1 <=> directive.found)

\* A turn ended after two passes, the second of which wrote a directive.
C11_Witness ==
    /\ orchState = "terminal"
    /\ generations = 2
    /\ toolRuns = 1
    /\ Detect(modelOutput).found

FirstPassDone == orchState \in {"executing-tool", "awaiting-final-response", "terminal"}

\* C12: a text holding exactly one well-formed directive yields a directive
\* with that name and that argument mapping, whatever scalars and objects the
\* mapping holds; a text with no directive, or with a directive whose ARGS
\* are not JSON, yields none.
C12_DetectorRoundTrip ==
    FirstPassDone =>
        /\ intent.kind = "call" =>
                directive = [found |-> TRUE, name |-> intent.name, args |-> intent.args]
        /\ intent.kind \in {"answer", "bad_args"} => ~directive.found

(***************************************************************************)
(* Further properties of the tool server                                   *)
(***************************************************************************)
\* C14: within one tool invocation every endpoint is requested at most once:
\* the request log holds no request twice, file and README requests go to
\* one item after the other, a code search that threw is followed by no
\* request at all, and one that answered with a non-success status is
\* followed by the repository listing only.
C14_NoRequestRetried ==
    /\ \A i, j \in 1..Len(requests) : i < j => requests[i] # requests[j]
    /\ \A i \in 1..Len(requests) : \A j \in (i + 1)..Len(requests) :
            requests[i].ep = requests[j].ep => requests[i].n < requests[j].n
    /\ searchOutcome \in {"reject", "json_reject"} => requests = <<Req("search", 0)>>
    /\ (searchOutcome = "http_error" /\ Len(requests) >= 2) =>
            requests[2] = Req("repos", 0)
    /\ executor = "getCalendarSlots" => Range(requests) \subseteq {Req("events", 0)}
    /\ executor = "sendDiscordAlert" => Range(requests) \subseteq {Req("webhook", 0)}

\* A search found hits, every file request failed or was skipped, and the
\* call went on to the repository listing and a README.
C14_Witness ==
    /\ pc = "done"
    /\ searchOutcome = "hits"
    /\ items >= 2
    /\ snippets = 0
    /\ \E k \in 1..Len(requests) : requests[k] = Req("readme", 1)

\* C15: however get_calendar_slots calls follow and overlap each other in one
\* process, at most one calendar client is ever constructed, the cache holds
\* a client exactly from that construction on, every call that got a client
\* got that one, and a construction that failed left the cache empty.
C15_ClientBuiltOnce ==
    /\ built <= 1
    /\ cachedClient <=> built = 1
    /\ \A c \in Calls : callPc[c] \in {"cal_list", "done"} => clientOf[c] = 1
    /\ \A c \in Calls : callPc[c] \in {"idle", "config_error", "threw"} => clientOf[c] = 0

\* One call failed to construct the client, and two later calls are both
\* waiting for their events, one having built the client, the other read it
\* from the cache.
C15_Witness ==
    \E a, b, c \in Calls :
        /\ callPc[a] = "threw"
        /\ callPc[b] = "cal_list"
        /\ callPc[c] = "cal_list"
        /\ b # c
        /\ built = 1

CredentialOneWay == env["GOOGLE_KEY_CONTENT"] # env["GOOGLE_KEY_PATH"]

\* C16: with the calendar ID set and the credential given either as inline
\* content only or as a file path only, get_calendar_slots does not return
\* the configuration error: it builds the client and requests the events
\* (unless building the client throws).
C16_EitherCredentialAccepted ==
    (executor = "getCalendarSlots" /\ env["GOOGLE_CALENDAR_ID"] /\ CredentialOneWay
        /\ pc \in {"cal_list", "done"}) =>
        /\ result # ErrorResult("ERROR: GOOGLE_CALENDAR_ID or GOOGLE_KEY_PATH not set.")
        /\ requests = <<Req("events", 0)>> \/ result = CalendarCatch

(***************************************************************************)
(* Properties of the suggestions of get_calendar_slots                     *)
(***************************************************************************)
\* The hour of day, in the reference time zone, lies in 9 .. 17.
StartsInBand(s) == s.start % DayMs >= 9 * HourMs /\ s.start % DayMs < 18 * HourMs

\* C17: no slot surfaced to the caller starts outside working hours: the
\* start hour of every suggestion, in the reference time zone, is at least 9
\* and less than 18.
C17_SuggestionsStartInWorkingHours ==
    \A k \in 1..Len(suggestions) : StartsInBand(suggestions[k])

\* Suggestions were returned from a list that also held slots starting
\* before 9 and slots starting at 18 or later.
C17_Witness ==
    /\ pc = "done"
    /\ Len(suggestions) >= 1
    /\ \E k \in 1..Len(slots) : slots[k].start % DayMs < 9 * HourMs
    /\ \E k \in 1..Len(slots) : slots[k].start % DayMs >= 18 * HourMs

InBand(all) == SelectSeq(all, StartsInBand)

\* C18: from n working-hours candidates exactly min(n, 6) suggestions are
\* returned, the candidates at positions 0, s, 2s, ... with
\* s = max(1, floor(n / 6)), in list order.
C18_SuggestionsAreEveryNth ==
    slotPc = "suggested" =>
        LET w == InBand(slots)
            n == Len(w)
            s == IF n \div 6 >= 1 THEN n \div 6 ELSE 1
        IN  /\ Len(suggestions) = (IF n < 6 THEN n ELSE 6)
            /\ \A k \in 1..Len(suggestions) : suggestions[k] = w[(k - 1) * s + 1]

\* Six suggestions were taken three apart from eighteen candidates.
C18_Witness ==
    /\ slotPc = "suggested"
    /\ Len(InBand(slots)) = 18
    /\ Len(suggestions) = 6
    /\ suggestions[2] = InBand(slots)[4]

CalendarAnswered ==
    /\ executor = "getCalendarSlots"
    /\ pc = "done"
    /\ result.kind = "text"

\* C19: get_calendar_slots returns its fully-booked message exactly when no
\* candidate survives the working-hours filter; whenever one survives it
\* returns a list of at least one slot, and never an empty list.
C19_FullyBookedIffNoCandidate ==
    CalendarAnswered =>
        /\ result = TextResult("No available slots found: fully booked")
                <=> InBand(slots) = <<>>
        /\ InBand(slots) # <<>> =>
                result = TextResult("Available slots") /\ Len(suggestions) >= 1
        /\ result = TextResult("Available slots") => Len(suggestions) >= 1

\* One call found the whole window busy and reported it.
C19_Witness ==
    /\ CalendarAnswered
    /\ Len(busy) = 1
    /\ slots = <<>>
    /\ result = TextResult("No available slots found: fully booked")

(***************************************************************************)
(* Properties of truncateCode                                              *)
(***************************************************************************)
ShownAt == {k \in 1..Len(truncated) : truncated[k].kind = "line"}
Shown == {truncated[k].v : k \in ShownAt}

\* C20: with the default limit a text of at most 40 lines is returned
\* unchanged; a text of n > 40 lines is returned as its first 20 lines, a
\* marker and its last 15 lines, the marker's count n - 35 is the number of
\* input lines not shown, and no input line is shown twice.
C20_TruncateCodeDefault ==
    (truncPc = "returned" /\ maxLines = DefaultMaxLines) =>
        LET n == Len(code)
        IN  /\ n <= 40 => truncated = [k \in 1..n |-> Line(code[k])]
            /\ n > 40 =>
                /\ Len(truncated) = 38
                /\ \A k \in 1..20 : truncated[k] = Line(code[k])
                /\ truncated[21] = Blank
                /\ truncated[22] = Marker(n - 35)
                /\ truncated[23] = Blank
                /\ \A k \in 1..15 : truncated[23 + k] = Line(code[n - 15 + k])
                /\ truncated[22].v = Cardinality(Range(code) \ Shown)
                /\ \A i, j \in ShownAt : i # j => truncated[i].v # truncated[j].v

\* A text of more than 40 lines was cut with the default limit.
C20_Witness ==
    /\ truncPc = "returned"
    /\ maxLines = DefaultMaxLines
    /\ Len(code) > 41
    /\ Len(truncated) < Len(code)

(***************************************************************************)
(* Properties of the chat client                                           *)
(***************************************************************************)
\* C13: whatever the interleaving of user sends and server events, the
\* assistant message shown for a user turn is the concatenation, in arrival
\* order, of exactly the token events of that turn: every assistant message
\* but the greeting follows a user message and holds the tokens that arrived
\* for that user's turn, the greeting holds no token, and a turn whose
\* tokens arrived has its assistant message.
C13_TokensStayInTheirTurn ==
    /\ messages[1] = Msg("assistant", Greeting, 0)
    /\ \A i \in 2..Len(messages) :
          messages[i].role = "assistant" =>
              /\ messages[i - 1].role = "user"
              /\ messages[i].content = arrived[messages[i - 1].turn]
    /\ \A i \in 1..Len(messages) :
          (messages[i].role = "user" /\ arrived[messages[i].turn] # <<>>) =>
              /\ i < Len(messages)
              /\ messages[i + 1].role = "assistant"

\* C21: the README excerpt of the repository-listing fallback is the first 20
\* lines of the README: whatever the README's length, no line after its 20th
\* is shown and the excerpt has no more lines than the README.
C21_ReadmeExcerptIsFirstTwenty ==
    (truncPc = "returned" /\ maxLines = ReadmeMaxLines) =>
        /\ \A k \in ShownAt : truncated[k].v <= 20
        /\ Len(truncated) <= Len(code)

(***************************************************************************)
(* Further properties of computeFreeSlots                                  *)
(***************************************************************************)
\* The cursor after the first k blocks of the (sorted) busy list.
CursorAfter(k) == Sweep(busy, windowStart, durationMs, k).cursor

\* C22: during the sweep the cursor never moves backwards: it starts at
\* windowStart, after each busy interval it is the maximum of its previous
\* value and that interval's end, so it is always at least windowStart and
\* at least the end of every interval already processed.
C22_CursorNeverRegresses ==
    slotPc = "returned" =>
        /\ CursorAfter(0) = windowStart
        /\ \A k \in 1..Len(busy) :
              /\ CursorAfter(k) >= CursorAfter(k - 1)
              /\ CursorAfter(k) \in {CursorAfter(k - 1), busy[k].end}
              /\ CursorAfter(k) >= busy[k].end
              /\ CursorAfter(k) >= windowStart
              /\ \A j \in 1..k : CursorAfter(k) >= busy[j].end

\* The second interval ends before the first does, and after the window's
\* start: the cursor stays at the first interval's end.
C22_Witness ==
    /\ slotPc = "returned"
    /\ Len(busy) = 2
    /\ busy[1].end > windowStart
    /\ busy[2].end < busy[1].end
    /\ busy[2].end > windowStart
    /\ CursorAfter(2) = busy[1].end

WellFormedBusy == \A k \in 1..Len(busy) : busy[k].start <= busy[k].end

\* C26: for busy intervals with start <= end and a positive duration the
\* returned slots are in strictly increasing order of start, so none appears
\* twice, whatever the overlaps, containments and equal starts in the list.
C26_SlotsStrictlyIncreasing ==
    (slotPc = "returned" /\ WellFormedBusy /\ durationMs > 0) =>
        \A i \in 1..(Len(slots) - 1) : slots[i].start < slots[i + 1].start

\* Slots were returned on both sides of two intervals that start together.
C26_Witness ==
    /\ slotPc = "returned"
    /\ WellFormedBusy
    /\ durationMs > 0
    /\ Len(busy) = 2
    /\ busy[1].start = busy[2].start
    /\ Len(slots) >= 2
    /\ slots[1].start < busy[1].start
    /\ slots[Len(slots)].start >= busy[1].end

\* C23: every slot suggested by get_calendar_slots lies in the working hours
\* 09:00-18:00 of the reference time zone as a whole: it starts at or after
\* 09:00 and ends at or before 18:00 of the same day, whatever the duration.
C23_SuggestionsWithinWorkingHours ==
    \A k \in 1..Len(suggestions) :
        LET s == suggestions[k]
        IN  /\ s.start % DayMs >= 9 * HourMs
            /\ (s.start % DayMs) + (s.end - s.start) <= 18 * HourMs

IsPrefix(a, b) == Len(a) <= Len(b) /\ SubSeq(b, 1, Len(a)) = a

\* C24: the message list of the chat client is only appended to: in every
\* step its length does not decrease, every existing message keeps its place
\* and its role, a user message keeps its content, and an assistant
\* message's content at most gains a suffix.
C24_MessagesAppendOnly ==
    [][/\ Len(messages') >= Len(messages)
       /\ \A i \in 1..Len(messages) :
            /\ messages'[i].role = messages[i].role
            /\ messages[i].role = "user" => messages'[i].content = messages[i].content
            /\ IsPrefix(messages[i].content, messages'[i].content)]_vars

\* Two user messages are in the list, the first followed by an assistant
\* message made of two tokens.
C24_Witness ==
    /\ Len(messages) >= 4
    /\ messages[2].role = "user"
    /\ messages[3].role = "assistant"
    /\ Len(messages[3].content) = 2
    /\ messages[4].role = "user"

RequestsTo(ep) == Cardinality({k \in 1..Len(requests) : requests[k].ep = ep})

\* C25: one github_search invocation fetches the file of at most 3 code hits
\* and the README of at most 4 repositories, and makes at most 9 requests:
\* 1 code search, at most 3 file fetches, at most 1 repository listing, at
\* most 4 README fetches.
C25_AtMostNineRequests ==
    executor = "githubSearch" =>
        /\ RequestsTo("search") <= 1
        /\ RequestsTo("file") <= 3
        /\ RequestsTo("repos") <= 1
        /\ RequestsTo("readme") <= 4
        /\ Len(requests) <= 9
        /\ Range(requests) \subseteq
                {Req(ep, n) : ep \in {"search", "file", "repos", "readme"}, n \in 0..4}

\* A call made all nine requests.
C25_Witness ==
    /\ executor = "githubSearch"
    /\ pc = "done"
    /\ Len(requests) = 9
    /\ RequestsTo("file") = 3
    /\ RequestsTo("readme") = 4

\* A message was sent whose turn has ended with neither "done" nor "error".
TurnPending ==
    \/ outbox # <<>>
    \/ serverTurn # 0
    \/ \E k \in 1..Len(inbox) : inbox[k].type \in {"done", "error"}

\* C28: the chat client leaves the streaming state whenever the turn can no
\* longer complete: isStreaming and isActive are true only while the
\* connection is open and a sent message has received neither a done nor an
\* error event.
C28_StreamingOnlyWhileTurnCanComplete ==
    (isStreaming \/ isActive) => (readyState = "OPEN" /\ TurnPending)


\* C29: a retry attempt (a health-check request issued with retryCount above
\* zero) is started only after the retryInterval timer that the preceding
\* failed attempt scheduled has fired, so never while that timer is still
\* pending.
C29_RetryWaitsForRetryTimer ==
    [][(issued' = issued + 1 /\ closureRetry' > 0) => retryTimer = 0]_vars

\* C30: retryCount never exceeds maxRetries; when status is 'error' exactly
\* maxRetries + 1 requests have been issued since mount or the last press of
\* Retry, none is outstanding or due, and no request is issued until Retry is
\* pressed; once status is 'ready' it never changes and no request is issued.
C30_RetriesBoundedAndReadyFinal ==
    /\ [](retryCount <= MaxRetries)
    /\ [](hcStatus = "error" =>
             /\ issued = (presses + 1) * (MaxRetries + 1)
             /\ inflight = {}
             /\ ~effectDirty
             /\ retryTimer = 0)
    /\ [][hcStatus = "error" => issued' = issued]_vars
    /\ [][hcStatus = "ready" => (hcStatus' = "ready" /\ issued' = issued)]_vars

C30_Witness ==
    /\ hcStatus = "error"
    /\ presses = 1
    /\ retryCount = MaxRetries


\* C27: computeFreeSlots terminates on every input, zero and negative
\* durations, empty and inverted windows and empty busy lists included: every
\* call that is started reaches its return statement.
C27_ComputeFreeSlotsReturns == <>(slotPc = "returned")

====
